---- MODULE Spec2Model ----
(***************************************************************************)
(* Profile aggregation of backend/main.py: ProfileBuilderService folds an  *)
(* ordered list of (source, source_type) pairs into one profile_data dict, *)
(* enhances it (skill dedup, bio backfill, media tagging) and saves it.    *)
(*                                                                         *)
(* Representation of Python values:                                        *)
(*   - None is the string None; a str is a TLA+ string;                    *)
(*   - free text that the code scans (captions, descriptions) is a         *)
(*     sequence of tokens [hash, word];                                    *)
(*   - a dict with fixed keys is a record; a list is a sequence;           *)
(*   - an AI response is a record [kind, items] or [kind, text]: what      *)
(*     generate_content did (raised, or returned response.text).           *)
(***************************************************************************)
EXTENDS Integers, Sequences, FiniteSets, TLC

VARIABLES
    request,       \* ProfileImportRequest: [user_id, sources, source_types]
    pc,            \* position of build_profile / import_profile
    idx,           \* next pair of zip(sources, source_types) to process
    profile_data,  \* the dict under construction
    db,            \* talent_profiles.db: [profiles, portfolio_items, seq]
    response,      \* what import_profile answered: [status, data]
    fetched,       \* history: what each processed pair was given
    ai,            \* history: how the AI calls made so far ended
    suspended,     \* the frame of the other build_profile coroutine
    runs,          \* number of import_profile requests received
    last,          \* history: per user_id, the profile_data saved last
    got,           \* what get_profile answered, if it was handled last
    page           \* the <img> tags of the page scrape_website was given

vars == <<request, pc, idx, profile_data, db, response, fetched, ai,
          suspended, runs, last, got, page>>

----------------------------------------------------------------------------
(* Bounds and domains *)

MaxSources == 2

None == "None"

\* A skill element that json.loads can return and that is neither a str nor
\* hashable (a JSON object).
JsonObject == "{json-object}"

FallbackBio == "Creative professional with diverse skills and experience."

UserIds == {"", "alice"}
SourceIds == {"s1", "s2"}
KnownTypes == {"instagram", "linkedin", "website", "resume"}
SourceTypes == KnownTypes \cup {"tiktok"}

ScalarFields == {"name", "bio", "email", "phone", "location", "profession"}
LinkKeys == {"instagram", "website"}

Min(a, b) == IF a <= b THEN a ELSE b

SeqsUpTo(S, n) == UNION {[1..k -> S] : k \in 0..n}

\* Python truthiness of an Optional[str] value (not None, not "").
Truthy(v) == v # None /\ v # ""

Range(s) == {s[k] : k \in 1..Len(s)}

NoDup(s) == \A a, b \in 1..Len(s) : a # b => s[a] # s[b]

IsPrefix(s, t) == Len(s) <= Len(t) /\ \A k \in 1..Len(s) : s[k] = t[k]

----------------------------------------------------------------------------
(* String functions, tabulated over the strings of the model *)

\* str.replace("@", "")
ReplaceAt(s) ==
    CASE s = "@s1" -> "s1"
      [] s = "@s2" -> "s2"
      [] OTHER -> s

\* str.strip()
Strip(s) ==
    CASE s = " Photography" -> "Photography"
      [] s = "  " -> ""
      [] s = " Bio A " -> "Bio A"
      [] OTHER -> s

----------------------------------------------------------------------------
(* The AI capability: what one call of model.generate_content can do *)

\* Responses to the extract_skills prompt. kind "error": the call raised;
\* "json_list": response.text is a JSON array of items; "json_other": it is
\* JSON but not an array; "text": it is not JSON, items are the pieces of
\* response.text between commas.
SkillResponses ==
    { [kind |-> "error", text |-> "", items |-> <<>>],
      [kind |-> "json_list", text |-> "", items |-> <<"Photography", "photography">>],
      [kind |-> "json_list", text |-> "", items |-> <<JsonObject>>],
      [kind |-> "json_other", text |-> "", items |-> <<>>],
      [kind |-> "text", text |-> "", items |-> <<" Photography", "  ">>] }

\* Responses to the generate_bio prompt.
BioResponses ==
    { [kind |-> "error", text |-> "", items |-> <<>>],
      [kind |-> "text", text |-> " Bio A ", items |-> <<>>],
      [kind |-> "text", text |-> "  ", items |-> <<>>] }

IsStr(e) == e # JsonObject

Hashable(e) == e # JsonObject

\* [f(x) for x in s if p(x)] for f = Strip, p = truthy after Strip
RECURSIVE StripNonEmpty(_)
StripNonEmpty(s) ==
    IF s = <<>> THEN <<>>
    ELSE LET rest == StripNonEmpty(Tail(s))
         IN IF Strip(Head(s)) # "" THEN <<Strip(Head(s))>> \o rest ELSE rest

\* AIService.extract_skills
extract_skills(resp) ==
    CASE resp.kind = "error" -> <<>>
      [] resp.kind = "json_list" -> resp.items
      [] resp.kind = "json_other" -> <<>>
      [] resp.kind = "text" -> StripNonEmpty(resp.items)

\* AIService.generate_bio: ', '.join(skills) raises TypeError on an item
\* that is not a str, inside the try, so the fallback is returned.
generate_bio(pd, resp) ==
    IF \E k \in 1..Len(pd.skills) : ~IsStr(pd.skills[k]) THEN FallbackBio
    ELSE IF resp.kind = "error" THEN FallbackBio
    ELSE Strip(resp.text)

----------------------------------------------------------------------------
(* Source adapters. The instagram and linkedin scrapers of the repository *)
(* return a fixed payload; the website scraper fetches the url.           *)

Tok(h, w) == [hash |-> h, word |-> w]

\* InstagramScraper.scrape_profile: the same two posts for every username
\* (the fourth word of the first caption is the one character U+2728)
ScrapeInstagram(source) ==
    [ name |-> "@" \o source,
      bio |-> "Creative photographer capturing life's moments",
      recent_posts |->
        << [ url |-> "https://example.com/post1.jpg",
             caption |-> <<Tok(FALSE, "Golden"), Tok(FALSE, "hour"),
                           Tok(FALSE, "magic"), Tok(FALSE, "U+2728"),
                           Tok(TRUE, "photography"), Tok(TRUE, "goldenhour")>>,
             likes |-> 234, type |-> "image" ],
           [ url |-> "https://example.com/post2.jpg",
             caption |-> <<Tok(FALSE, "Behind"), Tok(FALSE, "the"),
                           Tok(FALSE, "scenes"), Tok(FALSE, "of"),
                           Tok(FALSE, "today's"), Tok(FALSE, "shoot")>>,
             likes |-> 156, type |-> "image" ] >> ]

\* LinkedInScraper.scrape_profile: the same payload for every profile_url
ScrapeLinkedin(source) ==
    [ name |-> "John Doe",
      headline |-> "Creative Director & Photographer",
      location |-> "New York, NY",
      experience |->
        << [ title |-> "Senior Photographer",
             company |-> "Creative Studio Inc.",
             description |->
               "Lead photographer for commercial and portrait projects" ] >>,
      skills |-> <<"Photography", "Adobe Creative Suite",
                   "Portrait Photography", "Commercial Photography">> ]

\* WebsiteScraper.scrape_website: ok = FALSE is the {"error": ...} result
WebsiteError == [error |-> TRUE, description |-> <<>>, images |-> <<>>,
                 content |-> ""]

ScrapeWebsite(source, ok) ==
    IF ~ok THEN WebsiteError
    ELSE IF source = "s1"
    THEN [ error |-> FALSE,
           description |-> <<Tok(FALSE, "Portfolio")>>,
           images |-> <<"https://s1/a.jpg", "https://s1/b.jpg">>,
           content |-> "<html>s1</html>" ]
    ELSE [ error |-> FALSE, description |-> <<>>, images |-> <<>>,
           content |-> "" ]

\* mock_resume_text of _process_resume_data, line by line: the label that
\* starts the line (or "") and the text after it.
mock_resume_text ==
    << [label |-> "", rest |-> "John Doe - Creative Director & Photographer"],
       [label |-> "Email:", rest |-> "john@example.com"],
       [label |-> "Phone:", rest |-> "(555) 123-4567"],
       [label |-> "", rest |-> "Experience:"],
       [label |-> "Skills:", rest |-> "Photography, Adobe Creative Suite"] >>

\* re.search(label + ..., text): the first line with the label, or None
ReSearch(label, text) ==
    IF \E k \in 1..Len(text) : text[k].label = label
    THEN text[CHOOSE k \in 1..Len(text) :
                 /\ text[k].label = label
                 /\ \A j \in 1..(k - 1) : text[j].label # label].rest
    ELSE None

----------------------------------------------------------------------------
(* ProfileBuilderService: the fold *)

NoLinks == [k \in LinkKeys |-> None]

\* build_profile, lines 291-300. "phone" and "location" are not keys of the
\* dict yet; _save_profile reads them with .get, which gives None.
NewProfile(user_id) ==
    [ user_id |-> user_id, name |-> None, bio |-> None, email |-> None,
      phone |-> None, location |-> None, profession |-> None,
      skills |-> <<>>, social_links |-> NoLinks, portfolio_items |-> <<>> ]

\* _extract_hashtags: re.findall(r'#(\w+)', text)
RECURSIVE _extract_hashtags(_)
_extract_hashtags(text) ==
    IF text = <<>> THEN <<>>
    ELSE (IF Head(text).hash THEN <<Head(text).word>> ELSE <<>>)
         \o _extract_hashtags(Tail(text))

InstagramItem(post) ==
    [ title |-> <<"Instagram Post - ", post.likes, " likes">>,
      description |-> post.caption,
      media_type |-> post.type,
      media_url |-> post.url,
      tags |-> _extract_hashtags(post.caption),
      source |-> "instagram",
      ai_analysis |-> None ]

WebsiteItem(data, img_url) ==
    [ title |-> <<"Website Image">>,
      description |-> data.description,
      media_type |-> "image",
      media_url |-> img_url,
      tags |-> <<>>,
      source |-> "website",
      ai_analysis |-> None ]

\* The portfolio candidates of one source, in the source's own order.
InstagramItems(data) ==
    [k \in 1..Len(data.recent_posts) |-> InstagramItem(data.recent_posts[k])]

WebsiteItems(data) ==
    [k \in 1..Len(data.images) |-> WebsiteItem(data, data.images[k])]

\* _process_instagram_data keeping the link a key already has.
InstagramKeepsFirstLink(pd, data, source, resp) ==
    [ pd EXCEPT
        !.name = IF ~Truthy(pd.name) THEN ReplaceAt(data.name) ELSE pd.name,
        !.social_links = IF pd.social_links["instagram"] = None
                         THEN [pd.social_links EXCEPT !["instagram"] = source]
                         ELSE pd.social_links,
        !.skills = pd.skills \o extract_skills(resp),
        !.portfolio_items = pd.portfolio_items \o InstagramItems(data) ]

\* _process_instagram_data. combined_text holds at least the blank between
\* bio and captions, so extract_skills is always called.
_process_instagram_data(pd, data, source, resp) ==
    [ pd EXCEPT
        !.name = IF ~Truthy(pd.name) THEN ReplaceAt(data.name) ELSE pd.name,
        !.social_links = [pd.social_links EXCEPT !["instagram"] = source],
        !.skills = pd.skills \o extract_skills(resp),
        !.portfolio_items = pd.portfolio_items \o InstagramItems(data) ]

\* _process_linkedin_data, lines 361-369: the fields taken from data.
LinkedinFields(pd, data) ==
    [ pd EXCEPT
        !.name = IF ~Truthy(pd.name) THEN data.name ELSE pd.name,
        !.profession = data.headline,
        !.location = data.location,
        !.skills = pd.skills \o data.skills ]

\* _process_linkedin_data, lines 372-383: the bio generated from the
\* experience, None if there is no experience_text. experience_text is
\* non-empty exactly when there is an experience entry.
LinkedinBio(pd, data, resp) ==
    IF Len(data.experience) > 0
    THEN generate_bio(LinkedinFields(pd, data), resp)
    ELSE None

\* _process_linkedin_data
_process_linkedin_data(pd, data, resp) ==
    IF Len(data.experience) > 0
    THEN [LinkedinFields(pd, data) EXCEPT !.bio = LinkedinBio(pd, data, resp)]
    ELSE LinkedinFields(pd, data)

\* _process_website_data putting its items before the ones already there.
WebsiteItemsFirst(pd, data, source, resp) ==
    IF data.error THEN pd
    ELSE [ pd EXCEPT
             !.social_links = [pd.social_links EXCEPT !["website"] = source],
             !.skills = IF data.content # ""
                        THEN pd.skills \o extract_skills(resp)
                        ELSE pd.skills,
             !.portfolio_items = WebsiteItems(data) \o pd.portfolio_items ]

\* _process_website_data recording the link before looking at the error.
WebsiteLinkOnError(pd, data, source, resp) ==
    IF data.error
    THEN [pd EXCEPT !.social_links = [pd.social_links EXCEPT !["website"] = source]]
    ELSE [ pd EXCEPT
             !.social_links = [pd.social_links EXCEPT !["website"] = source],
             !.skills = IF data.content # ""
                        THEN pd.skills \o extract_skills(resp)
                        ELSE pd.skills,
             !.portfolio_items = pd.portfolio_items \o WebsiteItems(data) ]

\* _process_website_data
_process_website_data(pd, data, source, resp) ==
    IF data.error THEN pd
    ELSE [ pd EXCEPT
             !.social_links = [pd.social_links EXCEPT !["website"] = source],
             !.skills = IF data.content # ""
                        THEN pd.skills \o extract_skills(resp)
                        ELSE pd.skills,
             !.portfolio_items = pd.portfolio_items \o WebsiteItems(data) ]

\* _process_resume_data
_process_resume_data(pd, resp) ==
    LET email_match == ReSearch("Email:", mock_resume_text)
        phone_match == ReSearch("Phone:", mock_resume_text)
    IN [ pd EXCEPT
           !.email = IF email_match # None THEN email_match ELSE pd.email,
           !.phone = IF phone_match # None THEN Strip(phone_match) ELSE pd.phone,
           !.skills = pd.skills \o extract_skills(resp) ]

----------------------------------------------------------------------------
(* ProfileBuilderService._enhance_with_ai *)

\* list(skills) without the set.
KeepDuplicates(skills) == {skills}

\* list(set(skills)): the orders a set of these items can be listed in.
\* set() raises TypeError on an item that is not hashable.
DedupOrders(skills) ==
    LET S == Range(skills)
        n == Cardinality(S)
    IN {s \in [1..n -> S] : \A a, b \in 1..n : a # b => s[a] # s[b]}

CanDedup(skills) == \A k \in 1..Len(skills) : Hashable(skills[k])

\* json.dumps(analysis) and analysis["tags"] of the analysis dict that
\* stands for the image analysis, lines 445-451.
AnalysisJson == "{content_type: photography, category: photography}"

AnalysisTags == <<"professional", "portrait", "creative">>

\* A loop body that puts the analysis tags in place of the item's tags.
TagItemOverwriting(item) ==
    IF item.media_type = "image" /\ Truthy(item.media_url)
    THEN [item EXCEPT !.ai_analysis = AnalysisJson,
                      !.tags = AnalysisTags]
    ELSE item

\* The body of the loop over portfolio_items, for one item.
TagItem(item) ==
    IF item.media_type = "image" /\ Truthy(item.media_url)
    THEN [item EXCEPT !.ai_analysis = AnalysisJson,
                      !.tags = item.tags \o AnalysisTags]
    ELSE item

NeedsBio(pd, skills) == ~Truthy(pd.bio) /\ Len(skills) > 0

\* _enhance_with_ai, given the order the set came out in and the response
\* to the bio prompt (used only when the bio is asked for).
_enhance_with_ai(pd, skills, resp) ==
    LET p1 == [pd EXCEPT !.skills = skills]
        p2 == IF NeedsBio(p1, skills)
              THEN [p1 EXCEPT !.bio = generate_bio(p1, resp)]
              ELSE p1
    IN [p2 EXCEPT !.portfolio_items =
           [k \in 1..Len(p2.portfolio_items) |-> TagItem(p2.portfolio_items[k])]]

----------------------------------------------------------------------------
(* ProfileBuilderService._save_profile on the sqlite tables *)

EmptyDb == [profiles |-> {}, portfolio_items |-> <<>>, seq |-> 0]

ProfileRow(id, pd) ==
    [ id |-> id, user_id |-> pd.user_id, name |-> pd.name, bio |-> pd.bio,
      email |-> pd.email, phone |-> pd.phone, location |-> pd.location,
      profession |-> pd.profession, skills |-> pd.skills,
      social_links |-> pd.social_links ]

ItemRow(profile_id, item) == [profile_id |-> profile_id, item |-> item]

\* A store that replaces the row of the user_id in place, keeping its id:
\* the items of the earlier runs stay attached to the profile.
SaveKeepingId(d, pd) ==
    LET old == {r \in d.profiles : r.user_id = pd.user_id}
        id == IF old = {} THEN d.seq + 1 ELSE (CHOOSE r \in old : TRUE).id
    IN [ profiles |-> (d.profiles \ old) \cup {ProfileRow(id, pd)},
         portfolio_items |-> d.portfolio_items \o
             [k \in 1..Len(pd.portfolio_items) |->
                 ItemRow(id, pd.portfolio_items[k])],
         seq |-> IF old = {} THEN id ELSE d.seq ]

\* INSERT OR REPLACE on the UNIQUE user_id deletes the row of that user_id
\* and inserts a new one under the next AUTOINCREMENT id; the items are
\* inserted under cursor.lastrowid.
_save_profile(d, pd) ==
    LET id == d.seq + 1
    IN [ profiles |-> {r \in d.profiles : r.user_id # pd.user_id}
                        \cup {ProfileRow(id, pd)},
         portfolio_items |-> d.portfolio_items \o
             [k \in 1..Len(pd.portfolio_items) |->
                 ItemRow(id, pd.portfolio_items[k])],
         seq |-> id ]

----------------------------------------------------------------------------
(* import_profile / build_profile as a state machine *)

Requests ==
    [ user_id : UserIds,
      sources : SeqsUpTo(SourceIds, MaxSources),
      source_types : SeqsUpTo(SourceTypes, MaxSources) ]

\* zip(request.sources, request.source_types) stops at the shorter list.
NPairs == Min(Len(request.sources), Len(request.source_types))

NoResponse == [status |-> 0, data |-> None]

NoAI == [kind |-> "none", text |-> "", items |-> <<>>]

\* One entry of the history: the pair, whether its fetch succeeded, and
\* the bio the pair came with (None if it came with none).
Entry(type, source, ok, bio) ==
    [source_type |-> type, source |-> source, ok |-> ok, bio |-> bio]

\* The history of the AI calls after one more response: "none" while no
\* call was made, "all_failed" while every call raised, else "some_ok".
AfterCall(resp) ==
    CASE resp.kind = "none" -> ai
      [] resp.kind = "error" -> IF ai = "some_ok" THEN "some_ok" ELSE "all_failed"
      [] OTHER -> "some_ok"

\* The locals of one import_profile / build_profile call.
Frame(req, p, i, pd, resp, f, a) ==
    [ request |-> req, pc |-> p, idx |-> i, profile_data |-> pd,
      response |-> resp, fetched |-> f, ai |-> a ]

\* The frame of a call that has just built its profile_data dict.
NewFrame(req) ==
    Frame(req, "folding", 1, NewProfile(req.user_id), NoResponse, <<>>, "none")

\* No other call.
NoFrame ==
    Frame([user_id |-> "", sources |-> <<>>, source_types |-> <<>>], "none", 1,
          NewProfile(""), NoResponse, <<>>, "none")

NoGot == [user_id |-> "", status |-> 0, data |-> <<>>]

\* One import_profile call and nothing else going on.
Alone ==
    /\ suspended = NoFrame
    /\ runs = 1
    /\ last = [u \in UserIds |-> <<>>]
    /\ got = NoGot
    /\ page = <<>>

\* What a step of build_profile leaves alone outside its own frame.
Rest ==
    /\ got' = NoGot
    /\ UNCHANGED <<suspended, runs, page>>

Init ==
    /\ request \in Requests
    /\ pc = "folding"
    /\ idx = 1
    /\ profile_data = NewProfile(request.user_id)
    /\ db = EmptyDb
    /\ response = NoResponse
    /\ fetched = <<>>
    /\ ai = "none"
    /\ Alone

AtPair(type) ==
    /\ pc = "folding"
    /\ idx <= NPairs
    /\ request.source_types[idx] = type

Advance(entry, resp) ==
    /\ idx' = idx + 1
    /\ fetched' = Append(fetched, entry)
    /\ ai' = AfterCall(resp)
    /\ UNCHANGED <<request, pc, db, response, last>>
    /\ Rest

ProcessInstagram ==
    /\ AtPair("instagram")
    /\ LET source == request.sources[idx]
       IN \E resp \in SkillResponses :
            /\ profile_data' = _process_instagram_data(
                   profile_data, ScrapeInstagram(source), source, resp)
            /\ Advance(Entry("instagram", source, TRUE, None), resp)

ProcessLinkedin ==
    /\ AtPair("linkedin")
    /\ LET source == request.sources[idx]
           data == ScrapeLinkedin(source)
       IN \E resp \in (IF Len(data.experience) > 0 THEN BioResponses ELSE {NoAI}) :
            /\ profile_data' = _process_linkedin_data(profile_data, data, resp)
            /\ Advance(Entry("linkedin", source, TRUE,
                             LinkedinBio(profile_data, data, resp)), resp)

ProcessWebsite ==
    /\ AtPair("website")
    /\ LET source == request.sources[idx]
       IN \E ok \in BOOLEAN :
            LET data == ScrapeWebsite(source, ok)
            IN \E resp \in (IF ~data.error /\ data.content # ""
                            THEN SkillResponses
                            ELSE {NoAI}) :
                 /\ profile_data' = _process_website_data(
                        profile_data, data, source, resp)
                 /\ Advance(Entry("website", source, ok, None), resp)

ProcessResume ==
    /\ AtPair("resume")
    /\ \E resp \in SkillResponses :
         /\ profile_data' = _process_resume_data(profile_data, resp)
         /\ Advance(Entry("resume", request.sources[idx], TRUE, None), resp)

\* A source_type that matches no branch of the if/elif chain.
ProcessOther ==
    /\ pc = "folding"
    /\ idx <= NPairs
    /\ request.source_types[idx] \notin KnownTypes
    /\ profile_data' = profile_data
    /\ Advance(Entry(request.source_types[idx], request.sources[idx], TRUE, None),
               NoAI)

\* _enhance_with_ai returns.
Enhance ==
    /\ pc = "folding"
    /\ idx > NPairs
    /\ CanDedup(profile_data.skills)
    /\ \E skills \in DedupOrders(profile_data.skills) :
         \E resp \in (IF NeedsBio(profile_data, skills)
                      THEN BioResponses ELSE {NoAI}) :
            /\ profile_data' = _enhance_with_ai(profile_data, skills, resp)
            /\ ai' = AfterCall(resp)
    /\ pc' = "enhanced"
    /\ UNCHANGED <<request, idx, db, response, fetched, last>>
    /\ Rest

\* set(skills) raises TypeError in _enhance_with_ai: build_profile lets it
\* through and import_profile answers HTTP 500.
EnhanceRaises ==
    /\ pc = "folding"
    /\ idx > NPairs
    /\ ~CanDedup(profile_data.skills)
    /\ pc' = "failed"
    /\ response' = [status |-> 500, data |-> None]
    /\ UNCHANGED <<request, idx, profile_data, db, fetched, ai, last>>
    /\ Rest

\* _save_profile, then build_profile returns and import_profile answers.
Save ==
    /\ pc = "enhanced"
    /\ db' = _save_profile(db, profile_data)
    /\ response' = [status |-> 200, data |-> profile_data]
    /\ pc' = "persisted"
    /\ last' = [last EXCEPT ![profile_data.user_id] = <<profile_data>>]
    /\ UNCHANGED <<request, idx, profile_data, fetched, ai>>
    /\ Rest

Next ==
    \/ ProcessInstagram
    \/ ProcessLinkedin
    \/ ProcessWebsite
    \/ ProcessResume
    \/ ProcessOther
    \/ Enhance
    \/ EnhanceRaises
    \/ Save

Spec == Init /\ [][Next]_vars

\* The event loop runs the coroutine to its end: a step that can be taken
\* is taken.
FairSpec == Spec /\ WF_vars(Next)

TypeOK ==
    /\ request \in Requests
    /\ pc \in {"folding", "enhanced", "persisted", "failed"}
    /\ idx \in 1..(MaxSources + 1)
    /\ response.status \in {0, 200, 500}
    /\ Len(fetched) = idx - 1
    /\ ai \in {"none", "all_failed", "some_ok"}

----------------------------------------------------------------------------
(* get_profile on the sqlite tables *)

\* SELECT * FROM portfolio_items WHERE profile_id = ?, among the first n
\* rows of the table, each with its rowid.
RECURSIVE SelectItems(_, _, _)
SelectItems(d, profile_id, n) ==
    IF n = 0 THEN <<>>
    ELSE SelectItems(d, profile_id, n - 1) \o
         (IF d.portfolio_items[n].profile_id = profile_id
          THEN <<[id |-> n, item |-> d.portfolio_items[n].item]>>
          ELSE <<>>)

\* json.loads(row[7] or "{}") if row[7] else {}. The "source" of an item is
\* no column of the table.
EmptyDict == "{}"

ItemView(id, item) ==
    [ id |-> id, title |-> item.title, description |-> item.description,
      media_type |-> item.media_type, media_url |-> item.media_url,
      tags |-> item.tags,
      ai_analysis |-> IF Truthy(item.ai_analysis) THEN item.ai_analysis
                      ELSE EmptyDict ]

ProfileView(row, items) ==
    [ user_id |-> row.user_id, name |-> row.name, bio |-> row.bio,
      email |-> row.email, phone |-> row.phone, location |-> row.location,
      profession |-> row.profession, skills |-> row.skills,
      social_links |-> row.social_links,
      portfolio_items |-> [k \in 1..Len(items) |->
                              ItemView(items[k].id, items[k].item)] ]

\* A lookup that answers a blank profile for a user_id it has no row of.
GetBlankProfile(d, user_id) ==
    LET rows == {r \in d.profiles : r.user_id = user_id}
        profile_row == IF rows = {} THEN ProfileRow(0, NewProfile(user_id))
                       ELSE CHOOSE r \in rows : TRUE
    IN [ user_id |-> user_id, status |-> 200,
         data |-> <<ProfileView(profile_row,
                      SelectItems(d, profile_row.id, Len(d.portfolio_items)))>> ]

\* get_profile: HTTP 404 if there is no row for the user_id
get_profile(d, user_id) ==
    LET rows == {r \in d.profiles : r.user_id = user_id}
    IN IF rows = {}
       THEN [user_id |-> user_id, status |-> 404, data |-> <<>>]
       ELSE LET profile_row == CHOOSE r \in rows : TRUE
                portfolio_rows ==
                    SelectItems(d, profile_row.id, Len(d.portfolio_items))
            IN [ user_id |-> user_id, status |-> 200,
                 data |-> <<ProfileView(profile_row, portfolio_rows)>> ]

----------------------------------------------------------------------------
(* Several import_profile requests and get_profile requests on one event  *)
(* loop: a coroutine runs until it awaits the website fetch or returns,   *)
(* and only then another call is started or goes on. The instagram and    *)
(* linkedin scrapers and the AI calls hold no await that gives the loop   *)
(* control.                                                               *)

MaxRuns == 2

\* The requests sent when several are.
RunRequests ==
    { [user_id |-> u, sources |-> p[1], source_types |-> p[2]] :
        u \in UserIds,
        p \in { <<<<"s2">>, <<"website">>>>,
                <<<<"s1", "s2">>, <<"instagram", "website">>>> } }

CurrentFrame == Frame(request, pc, idx, profile_data, response, fetched, ai)

InFlight(frame) == frame.pc \in {"folding", "enhanced"}

\* The call is inside scrape_website, at session.get or response.text().
AwaitsFetch(frame) ==
    /\ frame.pc = "folding"
    /\ frame.idx <= Min(Len(frame.request.sources),
                        Len(frame.request.source_types))
    /\ frame.request.source_types[frame.idx] = "website"

\* The event loop has control: the call awaits the fetch or has returned.
Yields(frame) == AwaitsFetch(frame) \/ frame.pc \in {"persisted", "failed"}

RunsInit ==
    /\ request \in RunRequests
    /\ pc = "folding"
    /\ idx = 1
    /\ profile_data = NewProfile(request.user_id)
    /\ db = EmptyDb
    /\ response = NoResponse
    /\ fetched = <<>>
    /\ ai = "none"
    /\ Alone

Resume(frame) ==
    /\ request' = frame.request
    /\ pc' = frame.pc
    /\ idx' = frame.idx
    /\ profile_data' = frame.profile_data
    /\ response' = frame.response
    /\ fetched' = frame.fetched
    /\ ai' = frame.ai

\* import_profile is called while at most one other call is in flight:
\* the call that was running is left where it awaits, or has returned.
StartRun ==
    /\ runs < MaxRuns
    /\ Yields(CurrentFrame)
    /\ ~InFlight(suspended)
    /\ \E req \in RunRequests : Resume(NewFrame(req))
    /\ suspended' = CurrentFrame
    /\ runs' = runs + 1
    /\ got' = NoGot
    /\ UNCHANGED <<db, last, page>>

\* Two calls that build one profile_data between them: the call that goes
\* on finds the dict as the other left it.
SwitchSharing ==
    /\ Yields(CurrentFrame)
    /\ InFlight(suspended)
    /\ request' = suspended.request
    /\ pc' = suspended.pc
    /\ idx' = suspended.idx
    /\ response' = suspended.response
    /\ fetched' = suspended.fetched
    /\ ai' = suspended.ai
    /\ suspended' = CurrentFrame
    /\ got' = NoGot
    /\ UNCHANGED <<profile_data, db, runs, last, page>>

\* The running call awaits or has returned, and the other call goes on.
Switch ==
    /\ Yields(CurrentFrame)
    /\ InFlight(suspended)
    /\ Resume(suspended)
    /\ suspended' = CurrentFrame
    /\ got' = NoGot
    /\ UNCHANGED <<db, runs, last, page>>

\* GET /profile/{user_id}
GetProfile ==
    /\ Yields(CurrentFrame)
    /\ \E u \in UserIds : got' = get_profile(db, u)
    /\ UNCHANGED <<request, pc, idx, profile_data, db, response, fetched, ai,
                   suspended, runs, last, page>>

RunsNext ==
    \/ ProcessInstagram
    \/ ProcessWebsite
    \/ Enhance
    \/ EnhanceRaises
    \/ Save
    \/ StartRun
    \/ Switch
    \/ GetProfile

SpecRuns == RunsInit /\ [][RunsNext]_vars

----------------------------------------------------------------------------
(* A website source whose page is given img tag by img tag *)

MaxImgTags == 12

\* images[:10]
MaxImages == 10

\* The src of an img tag, split after the part that startswith looks at:
\* "http...", "/..." or neither.
ImgSrc(prefix, k) ==
    [ prefix |-> prefix,
      rest |-> IF prefix = "http" THEN "s://cdn/" \o ToString(k) \o ".jpg"
               ELSE "img" \o ToString(k) \o ".jpg" ]

\* The pages: up to MaxImgTags img tags with an http src, but for at most
\* one of them, whose src starts with "/" or with a file name.
Pages ==
    { [k \in 1..n |-> ImgSrc(IF k = j THEN p ELSE "http", k)] :
        n \in 0..MaxImgTags, j \in 0..MaxImgTags, p \in {"/", ""} }

\* The loop body of _extract_images: what one src appends.
AbsoluteImage(img, base_domain) ==
    IF img.prefix = "http" THEN <<img.prefix \o img.rest>>
    ELSE IF img.prefix = "/"
    THEN <<"https://" \o base_domain \o img.prefix \o img.rest>>
    ELSE <<>>

RECURSIVE AbsoluteImages(_, _, _)
AbsoluteImages(images, base_domain, n) ==
    IF n = 0 THEN <<>>
    ELSE AbsoluteImages(images, base_domain, n - 1) \o
         AbsoluteImage(images[n], base_domain)

\* WebsiteScraper._extract_images: html is the list re.findall gives, and
\* the source id is the netloc of the url.
_extract_images(html, base_url) ==
    AbsoluteImages(html, base_url, Min(Len(html), MaxImages))

\* WebsiteScraper.scrape_website on the page: no meta description.
ScrapePage(html, url, ok) ==
    IF ~ok THEN WebsiteError
    ELSE [ error |-> FALSE, description |-> <<>>,
           images |-> _extract_images(html, url),
           content |-> "<html>page</html>" ]

PageRequest == [user_id |-> "alice", sources |-> <<"s1">>,
                source_types |-> <<"website">>]

PageInit ==
    /\ request = PageRequest
    /\ pc = "folding"
    /\ idx = 1
    /\ profile_data = NewProfile(request.user_id)
    /\ db = EmptyDb
    /\ response = NoResponse
    /\ fetched = <<>>
    /\ ai = "none"
    /\ suspended = NoFrame
    /\ runs = 1
    /\ last = [u \in UserIds |-> <<>>]
    /\ got = NoGot
    /\ page \in Pages

ProcessWebsitePage ==
    /\ AtPair("website")
    /\ LET source == request.sources[idx]
       IN \E ok \in BOOLEAN :
            LET data == ScrapePage(page, source, ok)
            IN \E resp \in (IF ~data.error /\ data.content # ""
                            THEN SkillResponses
                            ELSE {NoAI}) :
                 /\ profile_data' = _process_website_data(
                        profile_data, data, source, resp)
                 /\ Advance(Entry("website", source, ok, None), resp)

PageNext ==
    \/ ProcessWebsitePage
    \/ Enhance
    \/ EnhanceRaises
    \/ Save

SpecPage == PageInit /\ [][PageNext]_vars

----------------------------------------------------------------------------
(* Properties *)

PairType(k) == request.source_types[k]

PairSource(k) == request.sources[k]

FoldDone == idx > NPairs

Folded == 1..Len(fetched)

EqualLengths == Len(request.sources) = Len(request.source_types)

\* The value the k-th pair came with for a scalar field, None if none.
Offered(k, f) ==
    CASE PairType(k) = "instagram" ->
           (IF f = "name" THEN ReplaceAt(ScrapeInstagram(PairSource(k)).name)
            ELSE None)
      [] PairType(k) = "linkedin" ->
           (CASE f = "name" -> ScrapeLinkedin(PairSource(k)).name
              [] f = "profession" -> ScrapeLinkedin(PairSource(k)).headline
              [] f = "location" -> ScrapeLinkedin(PairSource(k)).location
              [] f = "bio" -> fetched[k].bio
              [] OTHER -> None)
      [] PairType(k) = "resume" ->
           (CASE f = "email" -> "john@example.com"
              [] f = "phone" -> "(555) 123-4567"
              [] OTHER -> None)
      [] OTHER -> None

FirstOffered(f) ==
    LET S == {k \in Folded : Truthy(Offered(k, f))}
    IN IF S = {} THEN None
       ELSE Offered(CHOOSE k \in S : \A j \in S : k <= j, f)

\* C1: at the end of the fold every scalar identity field holds the value
\* of the first pair, in input order, that came with a non-empty value for
\* it (and is unset if no pair did); a later pair never changes it.
C1_FirstNonEmptyWins ==
    (request.user_id # "" /\ pc = "folding" /\ FoldDone) =>
        \A f \in ScalarFields :
            IF FirstOffered(f) = None THEN ~Truthy(profile_data[f])
            ELSE profile_data[f] = FirstOffered(f)

\* Whether the k-th pair set the social_links key.
SetsLink(k, key) ==
    \/ key = "instagram" /\ PairType(k) = "instagram"
    \/ key = "website" /\ PairType(k) = "website" /\ fetched[k].ok

LastLink(key) ==
    LET S == {k \in Folded : SetsLink(k, key)}
    IN IF S = {} THEN None
       ELSE PairSource(CHOOSE k \in S : \A j \in S : j <= k)

\* C2: every social_links key holds the source identifier of the last pair
\* in input order that set that key, whatever the other pairs did; a key no
\* pair set is absent.
C2_LastLinkWins ==
    \A key \in LinkKeys : profile_data.social_links[key] = LastLink(key)

C2_Witness ==
    /\ pc = "persisted"
    /\ Len(fetched) = 2
    /\ SetsLink(1, "instagram") /\ SetsLink(2, "instagram")
    /\ PairSource(1) # PairSource(2)
    /\ profile_data.social_links["instagram"] = PairSource(2)

\* The portfolio candidates of the k-th pair.
Candidates(k) ==
    CASE PairType(k) = "instagram" -> InstagramItems(ScrapeInstagram(PairSource(k)))
      [] PairType(k) = "website" /\ fetched[k].ok ->
           WebsiteItems(ScrapeWebsite(PairSource(k), TRUE))
      [] OTHER -> <<>>

RECURSIVE CandidatesUpTo(_)
CandidatesUpTo(n) ==
    IF n = 0 THEN <<>> ELSE CandidatesUpTo(n - 1) \o Candidates(n)

SameCandidate(a, b) ==
    /\ a.title = b.title
    /\ a.description = b.description
    /\ a.media_type = b.media_type
    /\ a.media_url = b.media_url
    /\ a.source = b.source

\* item is the candidate, as it was or annotated: ai_analysis set and tags
\* extended at the end.
IsAnnotated(candidate, item) ==
    /\ SameCandidate(candidate, item)
    /\ IsPrefix(candidate.tags, item.tags)
    /\ item.ai_analysis = None => item.tags = candidate.tags

\* new holds every item of old at its place, as it was or annotated further,
\* and possibly more items after them.
Extends(old, new) ==
    /\ Len(old) <= Len(new)
    /\ \A k \in 1..Len(old) :
          /\ SameCandidate(old[k], new[k])
          /\ IsPrefix(old[k].tags, new[k].tags)
          /\ old[k].ai_analysis # None => new[k].ai_analysis = old[k].ai_analysis

\* C3: portfolio_items is the concatenation, in input order of the pairs,
\* of each pair's candidates in the pair's own order (annotated or not), and
\* every step leaves the list an extension of what it was.
C3_PortfolioInInputOrder ==
    /\ [](LET want == CandidatesUpTo(Len(fetched))
          IN /\ Len(profile_data.portfolio_items) = Len(want)
             /\ \A k \in 1..Len(want) :
                    IsAnnotated(want[k], profile_data.portfolio_items[k]))
    /\ [][Extends(profile_data.portfolio_items, profile_data'.portfolio_items)]_vars

C3_Witness ==
    /\ pc = "persisted"
    /\ Len(fetched) = 2
    /\ PairType(1) = "website" /\ PairType(2) = "instagram"
    /\ Len(Candidates(1)) = 2 /\ Len(Candidates(2)) = 2
    /\ Len(profile_data.portfolio_items) = 4
    /\ profile_data.portfolio_items[1].source = "website"
    /\ profile_data.portfolio_items[4].source = "instagram"

\* C4: once _enhance_with_ai has returned, skills holds no string twice,
\* and the strings it holds are exactly the strings the fold had collected.
C4_SkillsDeduplicated ==
    /\ [](pc \in {"enhanced", "persisted"} => NoDup(profile_data.skills))
    /\ [][(pc = "folding" /\ pc' = "enhanced") =>
            Range(profile_data'.skills) = Range(profile_data.skills)]_vars

C4_Witness ==
    /\ pc = "enhanced"
    /\ Len(fetched) = 2
    /\ PairType(1) = "linkedin" /\ PairType(2) = "linkedin"
    /\ "Photography" \in Range(ScrapeLinkedin(PairSource(1)).skills)
    /\ "Photography" \in Range(ScrapeLinkedin(PairSource(2)).skills)
    /\ Cardinality({k \in 1..Len(profile_data.skills) :
                       profile_data.skills[k] = "Photography"}) = 1

\* C5: a run with an empty user_id is answered with a non-success outcome
\* having processed no pair, made no AI call and written nothing.
C5_EmptyUserIdRejected ==
    request.user_id = "" =>
        /\ Len(fetched) = 0
        /\ ai = "none"
        /\ db = EmptyDb
        /\ response.status # 200

\* C6: a run whose sources and source_types differ in length is answered
\* with a non-success outcome having processed no pair and written nothing.
C6_UnequalLengthsRejected ==
    (request.user_id # "" /\ ~EqualLengths) =>
        /\ Len(fetched) = 0
        /\ db = EmptyDb
        /\ response.status # 200

AllSourcesFailed ==
    \A k \in Folded : PairType(k) = "website" /\ ~fetched[k].ok

\* C7: a run with a non-empty user_id and lists of equal length does not
\* stop before it has persisted and returned the profile, whatever the
\* fetches and the AI calls gave; if every source failed the profile
\* returned has only user_id set.
C7_ValidRunPersists ==
    (request.user_id # "" /\ EqualLengths) =>
        /\ \/ ENABLED Next
           \/ /\ pc = "persisted"
              /\ response.status = 200
              /\ response.data = profile_data
        /\ (pc = "persisted" /\ AllSourcesFailed) =>
              response.data = NewProfile(request.user_id)

\* C8: a run in which every AI call failed does not stop before it has
\* persisted; its bio is then the fallback sentence and none of its
\* portfolio items has ai_analysis set.
C8_AllAIFailed ==
    (request.user_id # "" /\ EqualLengths /\ ai = "all_failed" /\ ~ENABLED Next) =>
        /\ pc = "persisted"
        /\ profile_data.bio = FallbackBio
        /\ \A k \in 1..Len(profile_data.portfolio_items) :
               profile_data.portfolio_items[k].ai_analysis = None

\* The step that processes pair idx.
FoldStep == pc = "folding" /\ idx <= NPairs /\ idx' = idx + 1

\* C9: processing a website whose fetch failed leaves profile_data as it
\* was: user_id, scalar fields, skills, social_links and portfolio_items.
C9_FailedFetchIsNoOp ==
    [][(FoldStep /\ PairType(idx) = "website" /\ ~fetched'[idx].ok) =>
          profile_data' = profile_data]_vars

C9_Witness ==
    /\ pc = "persisted"
    /\ Len(fetched) = 2
    /\ PairType(1) = "website" /\ ~fetched[1].ok
    /\ PairType(2) = "instagram"
    /\ profile_data.social_links["website"] = None
    /\ Len(profile_data.portfolio_items) = Len(Candidates(2))

\* C10: processing the same source (same kind, same identifier, same fetch
\* result) right after it was processed leaves every scalar field and
\* social_links as they were.
C10_RefoldKeepsScalars ==
    [][(/\ request.user_id # ""
        /\ FoldStep
        /\ idx > 1
        /\ PairType(idx) = PairType(idx - 1)
        /\ PairSource(idx) = PairSource(idx - 1)
        /\ fetched'[idx].ok = fetched[idx - 1].ok) =>
          /\ \A f \in ScalarFields : profile_data'[f] = profile_data[f]
          /\ profile_data'.social_links = profile_data.social_links]_vars

\* C11: a pair whose source_type is none of the four known kinds leaves
\* profile_data as it was and the run in the fold at the next pair; the
\* pairs are processed in input order, all of them before the run ends; and
\* a run that has such a pair does not stop before it has persisted.
C11_UnknownKindSkipped ==
    /\ [][(FoldStep /\ PairType(idx) \notin KnownTypes) =>
            /\ profile_data' = profile_data
            /\ pc' = "folding"
            /\ db' = db]_vars
    /\ [](/\ Len(fetched) = idx - 1
          /\ \A k \in Folded : /\ fetched[k].source_type = PairType(k)
                               /\ fetched[k].source = PairSource(k))
    /\ [](pc \in {"enhanced", "persisted", "failed"} => Len(fetched) = NPairs)
    /\ []((/\ request.user_id # ""
           /\ \E k \in 1..NPairs : PairType(k) \notin KnownTypes) =>
             ENABLED Next \/ pc = "persisted")

\* What a run's profile reads as once stored: the profile's fields, and of
\* each item the stored columns, the analysis as an object.
StoredItem(item) ==
    [ title |-> item.title, description |-> item.description,
      media_type |-> item.media_type, media_url |-> item.media_url,
      tags |-> item.tags,
      ai_analysis |-> IF Truthy(item.ai_analysis) THEN item.ai_analysis
                      ELSE EmptyDict ]

WithoutId(view) ==
    [ title |-> view.title, description |-> view.description,
      media_type |-> view.media_type, media_url |-> view.media_url,
      tags |-> view.tags, ai_analysis |-> view.ai_analysis ]

SameProfile(data, pd) ==
    /\ \A f \in ScalarFields : data[f] = pd[f]
    /\ data.user_id = pd.user_id
    /\ data.skills = pd.skills
    /\ data.social_links = pd.social_links
    /\ Len(data.portfolio_items) = Len(pd.portfolio_items)
    /\ \A k \in 1..Len(pd.portfolio_items) :
           WithoutId(data.portfolio_items[k]) = StoredItem(pd.portfolio_items[k])

\* C12: get_profile of a user id answers the profile of the run that
\* persisted last for that user id, field by field and item by item in
\* order, with nothing of an earlier run of that user id left in it.
C12_GetReturnsLastPersisted ==
    \A u \in UserIds :
        LET g == get_profile(db, u)
        IN IF last[u] = <<>>
           THEN g.status = 404
           ELSE /\ g.status = 200
                /\ SameProfile(g.data[1], last[u][1])

\* Two runs of alice have persisted, the first with items and a link, the
\* second with none, and get_profile has answered the second's profile.
C12_Witness ==
    /\ runs = 2
    /\ pc = "persisted" /\ suspended.pc = "persisted"
    /\ request.user_id = "alice" /\ suspended.request.user_id = "alice"
    /\ Len(suspended.profile_data.portfolio_items) = 2
    /\ Len(db.portfolio_items) = 2
    /\ profile_data.portfolio_items = <<>>
    /\ last["alice"] = <<profile_data>>
    /\ got.user_id = "alice" /\ got.status = 200
    /\ got.data[1].portfolio_items = <<>>
    /\ got.data[1].social_links["instagram"] = None

\* C13: a get_profile request leaves the tables as they are; it is answered
\* 404 without a profile exactly when no run has persisted for the user id,
\* and otherwise 200 with the profile of that user id.
C13_GetNotFound ==
    [][got'.status # 0 =>
          /\ db' = db
          /\ got'.status \in {200, 404}
          /\ got'.status = 404 <=> last[got'.user_id] = <<>>
          /\ got'.status = 404 => got'.data = <<>>
          /\ got'.status = 200 =>
                /\ Len(got'.data) = 1
                /\ got'.data[1].user_id = got'.user_id]_vars

\* alice is asked for when only the other user id has been persisted.
C13_Witness ==
    /\ got.user_id = "alice" /\ got.status = 404
    /\ last["alice"] = <<>> /\ last[""] # <<>>
    /\ db.profiles # {}

\* What one call running with no other makes of a pair, of the first n
\* pairs, and of the whole request.
FoldOutcomes(pd, type, source) ==
    CASE type = "instagram" ->
           { _process_instagram_data(pd, ScrapeInstagram(source), source, resp) :
               resp \in SkillResponses }
      [] type = "linkedin" ->
           LET data == ScrapeLinkedin(source)
           IN { _process_linkedin_data(pd, data, resp) :
                  resp \in (IF Len(data.experience) > 0
                            THEN BioResponses ELSE {NoAI}) }
      [] type = "website" ->
           UNION { LET data == ScrapeWebsite(source, ok)
                   IN { _process_website_data(pd, data, source, resp) :
                          resp \in (IF ~data.error /\ data.content # ""
                                    THEN SkillResponses ELSE {NoAI}) } :
                   ok \in BOOLEAN }
      [] type = "resume" ->
           { _process_resume_data(pd, resp) : resp \in SkillResponses }
      [] OTHER -> {pd}

RECURSIVE FoldedAlone(_, _)
FoldedAlone(req, n) ==
    IF n = 0 THEN {NewProfile(req.user_id)}
    ELSE UNION { FoldOutcomes(pd, req.source_types[n], req.sources[n]) :
                 pd \in FoldedAlone(req, n - 1) }

EnhancedAlone(req) ==
    UNION { UNION { { _enhance_with_ai(pd, skills, resp) :
                        resp \in (IF NeedsBio(pd, skills)
                                  THEN BioResponses ELSE {NoAI}) } :
                    skills \in (IF CanDedup(pd.skills)
                                THEN DedupOrders(pd.skills) ELSE {}) } :
            pd \in FoldedAlone(req, Min(Len(req.sources), Len(req.source_types))) }

ResultAlone(frame) ==
    IF frame.pc \in {"enhanced", "persisted"}
    THEN EnhancedAlone(frame.request)
    ELSE FoldedAlone(frame.request, frame.idx - 1)

\* C14: while two import_profile calls take turns, a step of one leaves
\* the locals of the other as they are; each call holds, at every point, a
\* profile that the call makes of its own request with no other call
\* going on, and answers with it; and once a call has persisted, the stored
\* profile of its user id is that call's profile in every field and item,
\* wherever the other call of the same user id is.
C14_RunsIsolated ==
    /\ [][suspended' # suspended => suspended' = CurrentFrame]_vars
    /\ [](\A frame \in {CurrentFrame, suspended} :
            frame.pc # "none" =>
              /\ frame.profile_data \in ResultAlone(frame)
              /\ frame.pc = "persisted" =>
                    frame.response = [status |-> 200, data |-> frame.profile_data])
    /\ [](pc = "persisted" /\ suspended.pc # "none"
            /\ suspended.request.user_id = request.user_id =>
              LET g == get_profile(db, request.user_id)
              IN /\ g.status = 200
                 /\ SameProfile(g.data[1], profile_data)
                 /\ last[request.user_id] = <<profile_data>>)

\* A call for alice has folded its instagram pair and awaits the fetch of
\* its website pair; meanwhile another call for alice, of a website alone,
\* has started, run and persisted.
C14_Witness ==
    /\ pc = "persisted" /\ AwaitsFetch(suspended)
    /\ request.user_id = "alice" /\ suspended.request.user_id = "alice"
    /\ request.source_types = <<"website">>
    /\ suspended.idx = 2
    /\ Len(suspended.profile_data.portfolio_items) = 2
    /\ suspended.profile_data.social_links["instagram"] = "s1"
    /\ profile_data.portfolio_items = <<>>
    /\ profile_data.social_links["instagram"] = None
    /\ db.seq = 1

\* C15: a website source fetched with success whose page has n img tags
\* has contributed the first min(n, 10) of them in page order, each an
\* image without tags.
C15_FirstTenImages ==
    (pc = "folding" /\ Len(fetched) = 1 /\ fetched[1].ok) =>
        LET items == profile_data.portfolio_items
        IN /\ Len(items) = Min(Len(page), MaxImages)
           /\ \A k \in 1..Len(items) :
                 /\ <<items[k].media_url>> = AbsoluteImage(page[k], PairSource(1))
                 /\ items[k].media_type = "image"
                 /\ items[k].tags = <<>>

\* C16: a run goes from folding to enrichment to persisted and nowhere
\* else: pairs are folded only before enrichment, enrichment is the one
\* step that follows the fold of the last pair, the tables are written by
\* the one step that follows enrichment, and a run that has stopped has
\* persisted.
C16_PhasesInOrder ==
    /\ [][(pc' # pc /\ request.user_id # "") =>
            \/ /\ pc = "folding" /\ pc' = "enhanced"
               /\ idx > NPairs /\ Len(fetched) = NPairs
               /\ db' = db
            \/ /\ pc = "enhanced" /\ pc' = "persisted"
               /\ profile_data' = profile_data
               /\ db' = _save_profile(db, profile_data)]_vars
    /\ [][idx' # idx => pc = "folding" /\ pc' = "folding"]_vars
    /\ [][db' # db => pc = "enhanced" /\ pc' = "persisted"]_vars
    /\ [](request.user_id # "" => ENABLED Next \/ pc = "persisted")

\* C17: once the enrichment pass is over, a profile with a skill has a bio
\* (the generated text, or the fallback sentence if none could be had);
\* and a bio that was there before the pass is the bio after it.
C17_BioBackfilled ==
    /\ []((/\ pc \in {"enhanced", "persisted"}
           /\ request.user_id # ""
           /\ Len(profile_data.skills) > 0) => Truthy(profile_data.bio))
    /\ [][(pc = "folding" /\ pc' = "enhanced" /\ Truthy(profile_data.bio)) =>
             profile_data'.bio = profile_data.bio]_vars

\* C18: the enrichment pass decides for each portfolio item from that item
\* alone: an image with a media_url gets ai_analysis set and the analysis
\* tags after the tags it had; any other item keeps ai_analysis unset and
\* its tags; no item is added, dropped or moved, nothing else of an item
\* changes, and of the profile only skills and bio (the other two parts of
\* the pass) may change besides.
C18_TaggingPerItem ==
    [][(pc = "folding" /\ pc' = "enhanced") =>
          LET old == profile_data.portfolio_items
              new == profile_data'.portfolio_items
          IN /\ Len(new) = Len(old)
             /\ \A k \in 1..Len(old) :
                   /\ IF old[k].media_type = "image" /\ Truthy(old[k].media_url)
                      THEN /\ new[k].ai_analysis = AnalysisJson
                           /\ new[k].tags = old[k].tags \o AnalysisTags
                      ELSE /\ new[k].ai_analysis = None
                           /\ new[k].tags = old[k].tags
                   /\ old[k].ai_analysis = None
                   /\ new[k].title = old[k].title
                   /\ new[k].description = old[k].description
                   /\ new[k].media_type = old[k].media_type
                   /\ new[k].media_url = old[k].media_url
                   /\ new[k].source = old[k].source
             /\ profile_data'.user_id = profile_data.user_id
             /\ profile_data'.social_links = profile_data.social_links
             /\ \A f \in ScalarFields \ {"bio"} :
                   profile_data'[f] = profile_data[f]]_vars

\* An enriched profile of two instagram posts and two website images: the
\* post with hashtags has them before the analysis tags, the others have
\* the analysis tags alone.
C18_Witness ==
    /\ pc = "enhanced"
    /\ Len(profile_data.portfolio_items) = 4
    /\ \A k \in 1..4 : profile_data.portfolio_items[k].ai_analysis = AnalysisJson
    /\ profile_data.portfolio_items[1].tags =
          <<"photography", "goldenhour">> \o AnalysisTags
    /\ profile_data.portfolio_items[2].tags = AnalysisTags
    /\ profile_data.portfolio_items[3].source = "website"
    /\ profile_data.portfolio_items[3].tags = AnalysisTags

====
